---------------------------- MODULE Spec2Model ----------------------------
(***************************************************************************)
(* Model of src/transcript_modify.py: the subtitle resegmentation engine.  *)
(*                                                                         *)
(* A Python str is modelled as a sequence of one-character strings.  The   *)
(* typographic characters are named by their code points (U201C is the     *)
(* left double quotation mark, and so on).  Times are integer              *)
(* milliseconds.  srt_i, start_srt_i are 0-based as in the source, so the  *)
(* cue under the cursor is srt_blocks[srt_i + 1].                          *)
(***************************************************************************)
EXTENDS Integers, Sequences, FiniteSets, TLC

(***************************************************************************)
(* Bounds of the model.                                                    *)
(***************************************************************************)
MaxCues == 3
MaxParas == 2
MaxLines == 4
MaxTextLen == 3
FileCount == 3
MaxWorkParas == 3

(***************************************************************************)
(* Characters.                                                             *)
(***************************************************************************)
Digits == {"0", "1", "2", "3", "4", "5", "6", "7", "8", "9"}
Whitespace == {" ", "\n"}
Letters == {"a", "b", "A"}

RECURSIVE Concat(_)
Concat(ss) == IF ss = <<>> THEN <<>> ELSE Head(ss) \o Concat(Tail(ss))

\* faulty variant: the em dash is rewritten to an en dash after the en dashes have
\* been replaced
ReplaceChar_DashOrder(c) ==
    CASE c = "U201C" -> "\""
      [] c = "U201D" -> "\""
      [] c = "U2018" -> "'"
      [] c = "U2019" -> "'"
      [] c = "U2014" -> "U2013"
      [] c = "U2013" -> "-"
      [] OTHER -> c

(***************************************************************************)
(* str.replace chain of normalize_text, one character at a time: every     *)
(* replaced string is one character long and so is every replacement.      *)
(***************************************************************************)
ReplaceChar(c) ==
    CASE c = "U201C" -> "\""
      [] c = "U201D" -> "\""
      [] c = "U2018" -> "'"
      [] c = "U2019" -> "'"
      [] c = "U2014" -> "-"
      [] c = "U2013" -> "-"
      [] OTHER -> c

ReplaceAll(txt) == [i \in 1..Len(txt) |-> ReplaceChar(txt[i])]

RECURSIVE LStrip(_)
LStrip(s) == IF s # <<>> /\ Head(s) \in Whitespace THEN LStrip(Tail(s)) ELSE s

RECURSIVE RStrip(_)
RStrip(s) ==
    IF s # <<>> /\ s[Len(s)] \in Whitespace
    THEN RStrip(SubSeq(s, 1, Len(s) - 1)) ELSE s

\* str.strip()
Strip(s) == RStrip(LStrip(s))

\* re.sub(r"\s+", " ", txt): every maximal whitespace run becomes one space
RECURSIVE CollapseWhitespace(_)
CollapseWhitespace(s) ==
    IF s = <<>> THEN <<>>
    ELSE IF Head(s) \in Whitespace
         THEN <<" ">> \o CollapseWhitespace(LStrip(s))
         ELSE <<Head(s)>> \o CollapseWhitespace(Tail(s))

normalize_text(txt) == Strip(CollapseWhitespace(ReplaceAll(txt)))

\* str.startswith
StartsWith(s, prefix) ==
    Len(prefix) <= Len(s) /\ SubSeq(s, 1, Len(prefix)) = prefix

(***************************************************************************)
(* Decimal numerals.                                                       *)
(***************************************************************************)
DigitChars == <<"0", "1", "2", "3", "4", "5", "6", "7", "8", "9">>

DigitValue(c) == CHOOSE d \in 0..9 : DigitChars[d + 1] = c

\* str(n) for n >= 0
RECURSIVE Numeral(_)
Numeral(n) ==
    IF n < 10 THEN <<DigitChars[n + 1]>>
    ELSE Numeral(n \div 10) \o <<DigitChars[(n % 10) + 1]>>

\* format(n, "0<width>d"): "-" and the zero-padded magnitude, at least
\* `width` characters in all
RECURSIVE ZeroPad(_, _)
ZeroPad(digits, width) ==
    IF Len(digits) >= width THEN digits ELSE ZeroPad(<<"0">> \o digits, width)

FormatInt(n, width) ==
    IF n >= 0 THEN ZeroPad(Numeral(n), width)
    ELSE <<"-">> \o ZeroPad(Numeral(-n), width - 1)

\* str.isdigit()
IsDigit(s) == s # <<>> /\ \A i \in 1..Len(s) : s[i] \in Digits

\* value of a string of digits
RECURSIVE DigitsValue(_)
DigitsValue(s) ==
    IF s = <<>> THEN 0
    ELSE 10 * DigitsValue(SubSeq(s, 1, Len(s) - 1)) + DigitValue(s[Len(s)])

\* the strings int() and float() accept, over the characters of the model:
\* an optional "-" and one or more digits
IsNumber(s) == IF s # <<>> /\ Head(s) = "-" THEN IsDigit(Tail(s)) ELSE IsDigit(s)

NumberValue(s) == IF Head(s) = "-" THEN -DigitsValue(Tail(s)) ELSE DigitsValue(s)

(***************************************************************************)
(* Splitting.                                                              *)
(***************************************************************************)
\* index of the first occurrence of character c in s, 0 when there is none
FirstIndex(s, c) ==
    IF \E i \in 1..Len(s) : s[i] = c
    THEN CHOOSE i \in 1..Len(s) : s[i] = c /\ \A j \in 1..(i - 1) : s[j] # c
    ELSE 0

\* str.split(sep) for a one-character separator
RECURSIVE SplitOn(_, _)
SplitOn(s, sep) ==
    LET i == FirstIndex(s, sep) IN
    IF i = 0 THEN <<s>>
    ELSE <<SubSeq(s, 1, i - 1)>> \o SplitOn(SubSeq(s, i + 1, Len(s)), sep)

\* str.splitlines(): no line for an empty string, none after a final "\n"
RECURSIVE SplitLines(_)
SplitLines(s) ==
    LET i == FirstIndex(s, "\n") IN
    IF s = <<>> THEN <<>>
    ELSE IF i = 0 THEN <<s>>
    ELSE <<SubSeq(s, 1, i - 1)>> \o SplitLines(SubSeq(s, i + 1, Len(s)))

\* length of the whitespace run at the front of s
RECURSIVE RunLength(_)
RunLength(s) ==
    IF s # <<>> /\ Head(s) \in Whitespace THEN 1 + RunLength(Tail(s)) ELSE 0

\* str.split(): the maximal runs of non-whitespace characters
RECURSIVE SplitWhitespace(_)
SplitWhitespace(s) ==
    LET t == LStrip(s)
        n == IF \E i \in 1..Len(t) : t[i] \in Whitespace
             THEN (CHOOSE i \in 1..Len(t) :
                      t[i] \in Whitespace /\ \A j \in 1..(i - 1) : t[j] \notin Whitespace) - 1
             ELSE Len(t)
    IN IF t = <<>> THEN <<>>
       ELSE <<SubSeq(t, 1, n)>> \o SplitWhitespace(SubSeq(t, n + 1, Len(t)))

\* re.split(r'\n\s*\n', s).  The leftmost match begins at the first "\n"
\* whose following whitespace run holds another "\n" and, \s* being
\* greedy, ends at the last "\n" of that run.
RECURSIVE SplitBlankLines(_)
SplitBlankLines(s) ==
    LET Starts(i) ==
            /\ s[i] = "\n"
            /\ \E k \in 1..RunLength(SubSeq(s, i + 1, Len(s))) : s[i + k] = "\n"
    IN IF \E i \in 1..Len(s) : Starts(i)
       THEN LET i == CHOOSE i \in 1..Len(s) :
                        Starts(i) /\ \A j \in 1..(i - 1) : ~Starts(j)
                run == RunLength(SubSeq(s, i + 1, Len(s)))
                k == CHOOSE k \in 1..run :
                        s[i + k] = "\n" /\ \A m \in (k + 1)..run : s[i + m] # "\n"
            IN <<SubSeq(s, 1, i - 1)>>
                 \o SplitBlankLines(SubSeq(s, i + k + 1, Len(s)))
       ELSE <<s>>

\* " ".join(strings)
RECURSIVE JoinSpace(_)
JoinSpace(strings) ==
    IF strings = <<>> THEN <<>>
    ELSE IF Len(strings) = 1 THEN strings[1]
    ELSE strings[1] \o <<" ">> \o JoinSpace(Tail(strings))

(***************************************************************************)
(* Timestamps.  A time is a number of milliseconds; an exception raised by *)
(* the source is the value Raise.                                          *)
(***************************************************************************)
Raise == [ok |-> FALSE]
Value(v) == [ok |-> TRUE, value |-> v]

\* lines 18-23
parse_srt_time(timestr) ==
    LET parts == SplitOn(timestr, ":") IN
    IF Len(parts) # 3 THEN Raise
    ELSE LET seconds_milli == SplitOn(parts[3], ",") IN
         IF Len(seconds_milli) # 2 THEN Raise
         ELSE IF ~(/\ IsNumber(parts[1]) /\ IsNumber(parts[2])
                   /\ IsNumber(seconds_milli[1]) /\ IsNumber(seconds_milli[2]))
         THEN Raise
         ELSE Value(NumberValue(parts[1]) * 3600000
                    + NumberValue(parts[2]) * 60000
                    + NumberValue(seconds_milli[1]) * 1000
                    + NumberValue(seconds_milli[2]))

\* line 27
Hours(total_ms) == total_ms \div 3600000
\* faulty variant: the minutes are not taken from the remainder of the hours
Minutes_Total(total_ms) == total_ms \div 60000

\* lines 28-29
Minutes(total_ms) == (total_ms % 3600000) \div 60000
\* lines 28, 30
Seconds(total_ms) == ((total_ms % 3600000) % 60000) \div 1000
\* line 31: the fractional part of the seconds, in milliseconds; int()
\* truncates towards zero, so the fraction has the sign of the time
Millis(total_ms) ==
    IF total_ms >= 0 THEN total_ms % 1000 ELSE -((-total_ms) % 1000)

\* lines 25-32
format_srt_time(total_ms) ==
    FormatInt(Hours(total_ms), 2) \o <<":">> \o FormatInt(Minutes(total_ms), 2)
      \o <<":">> \o FormatInt(Seconds(total_ms), 2)
      \o <<",">> \o FormatInt(Millis(total_ms), 3)

(***************************************************************************)
(* The cue decoder and the block encoder.                                  *)
(***************************************************************************)
Cue(i, s, e, t) == [index |-> i, start |-> s, end |-> e, text |-> t]

\* lines 45-65: one iteration of the loop over raw_blocks.  "skip" is a
\* continue, "raise" an exception that leaves parse_srt, "cue" an append.
ParseBlock(raw_block) ==
    LET lines == SplitLines(Strip(raw_block)) IN
    IF lines = <<>> THEN [kind |-> "skip"]
    ELSE IF ~IsDigit(Strip(lines[1])) THEN [kind |-> "skip"]
    ELSE IF Len(lines) < 2 THEN [kind |-> "raise"]
    ELSE LET tokens == SplitWhitespace(Strip(lines[2])) IN
         IF Len(tokens) # 3 THEN [kind |-> "raise"]
         ELSE LET start_seconds == parse_srt_time(tokens[1])
                  end_seconds == parse_srt_time(tokens[3])
                  subtitle_lines == SubSeq(lines, 3, Len(lines))
                  combined_text ==
                      Strip(JoinSpace([i \in 1..Len(subtitle_lines) |->
                                          Strip(subtitle_lines[i])]))
              IN IF ~start_seconds.ok \/ ~end_seconds.ok THEN [kind |-> "raise"]
                 ELSE [kind |-> "cue",
                       cue |-> Cue(DigitsValue(Strip(lines[1])),
                                   start_seconds.value, end_seconds.value,
                                   combined_text)]

\* lines 44-66: the loop, on the blocks not yet visited
RECURSIVE ParseBlocks(_, _)
ParseBlocks(raw_blocks, blocks) ==
    IF raw_blocks = <<>> THEN [ok |-> TRUE, blocks |-> blocks]
    ELSE LET r == ParseBlock(Head(raw_blocks)) IN
         IF r.kind = "raise" THEN [ok |-> FALSE, blocks |-> <<>>]
         ELSE ParseBlocks(Tail(raw_blocks),
                          IF r.kind = "cue" THEN Append(blocks, r.cue) ELSE blocks)

\* lines 39-66, on the text of the file
parse_srt(file_text) == ParseBlocks(SplitBlankLines(Strip(file_text)), <<>>)

\* lines 131-133
WriteBlock(b) ==
    Numeral(b.index) \o <<"\n">>
      \o format_srt_time(b.start) \o <<" ", "-", "-", ">", " ">>
      \o format_srt_time(b.end) \o <<"\n">>
      \o Strip(b.text) \o <<"\n", "\n">>

\* lines 129-133: the text of the file written
write_srt(merged_blocks) ==
    Concat([i \in 1..Len(merged_blocks) |-> WriteBlock(merged_blocks[i])])

(***************************************************************************)
(* Inputs of one alignment run.                                            *)
(***************************************************************************)
CuePool ==
    { Cue(7, 0, 1500, <<"a">>),
      Cue(3, 1500, 3661001, <<"b">>),
      Cue(1, 2000, 2500, <<>>),
      Cue(2, 3000, 59999, <<"U2018", "b">>) }

ParagraphPool ==
    { <<"a", " ", "b">>,
      <<"b">>,
      <<" ", "a", "\n", "b">>,
      <<" ", "a">>,
      <<"'", "b">> }

SeqsUpTo(S, n) == UNION { [1..k -> S] : k \in 0..n }

(***************************************************************************)
(* State of one merge_srt_by_paragraph call.  attempts and ranges are      *)
(* history variables: attempts[k] records paragraph k's attempt (the       *)
(* cursor when it began, the cursor when it ended, the number of cues it   *)
(* examined and how it ended), ranges[k] the cues block k consumed.        *)
(***************************************************************************)
VARIABLES srt_blocks, paragraphs, merged, current_index, srt_i, para_i,
          accumulated_text, start_time, end_time, start_srt_i, pc,
          attempts, ranges

alignVars == <<srt_blocks, paragraphs, merged, current_index, srt_i, para_i,
               accumulated_text, start_time, end_time, start_srt_i,
               attempts, ranges>>

(***************************************************************************)
(* content is the text of a cue file, parsed what parse_srt made of it.    *)
(***************************************************************************)
VARIABLES content, parsed

fileVars == <<content, parsed>>

(***************************************************************************)
(* txt is an argument of normalize_text, once its result and twice the     *)
(* result of normalizing that result.                                      *)
(***************************************************************************)
VARIABLES txt, once, twice

normVars == <<txt, once, twice>>

(***************************************************************************)
(* State of one process_folder call.  folder maps each base name to the    *)
(* text of its .srt file and to the paragraphs of its .docx file (NoDocx   *)
(* when there is none); remaining is the part of srt_files the for loop    *)
(* has not visited; overwritten is a history variable, the .srt files      *)
(* write_srt has replaced; raised tells that an exception left the call.   *)
(***************************************************************************)
VARIABLES folder, remaining, overwritten, raised

folderVars == <<folder, remaining, overwritten, raised>>

vars == <<alignVars, pc, fileVars, normVars, folderVars>>

NotParsed == [ok |-> FALSE, blocks |-> <<>>]

AlignIdle ==
    /\ srt_blocks = <<>>
    /\ paragraphs = <<>>
    /\ merged = <<>>
    /\ current_index = 1
    /\ srt_i = 0
    /\ para_i = 0
    /\ accumulated_text = <<>>
    /\ start_time = <<>>
    /\ end_time = <<>>
    /\ start_srt_i = 0
    /\ attempts = <<>>
    /\ ranges = <<>>

FileIdle == content = <<>> /\ parsed = NotParsed

NormIdle == txt = <<>> /\ once = <<>> /\ twice = <<>>

FolderIdle ==
    /\ folder = <<>>
    /\ remaining = {}
    /\ overwritten = {}
    /\ raised = FALSE

n_srt == Len(srt_blocks)

\* lines 83-86
Init ==
    /\ srt_blocks \in SeqsUpTo(CuePool, MaxCues)
    /\ paragraphs \in SeqsUpTo(ParagraphPool, MaxParas)
    /\ merged = <<>>
    /\ current_index = 1
    /\ srt_i = 0
    /\ para_i = 0
    /\ accumulated_text = <<>>
    /\ start_time = <<>>
    /\ end_time = <<>>
    /\ start_srt_i = 0
    /\ pc = "for"
    /\ attempts = <<>>
    /\ ranges = <<>>
    /\ FileIdle
    /\ NormIdle
    /\ FolderIdle

\* lines 104-107
Accumulate(acc, block_text) ==
    IF acc # <<>> THEN acc \o <<" ">> \o block_text ELSE block_text

\* faulty variant: a prefix is taken for a match
Outcome_PrefixIsMatch(accum_norm, paragraph_norm) ==
    IF StartsWith(paragraph_norm, accum_norm) THEN "match" ELSE "abort"

\* lines 111-120: which branch the comparison takes
Outcome(accum_norm, paragraph_norm) ==
    IF accum_norm = paragraph_norm THEN "match"
    ELSE IF StartsWith(paragraph_norm, accum_norm) THEN "prefix"
    ELSE "abort"

\* faulty variant: the block keeps the index of its last cue
BlockIndex_FromCue(next_index, cue_index) == cue_index

\* line 112: the index written into an emitted block
BlockIndex(next_index, cue_index) == next_index

\* faulty variant: the matched cue is not consumed
MatchCursor_Stay(i) == i

\* line 114: the cursor after a committed block
MatchCursor(i) == i + 1

\* faulty variant: the abort does not undo the advancement of the attempt
AbortCursor_NoReset(attempt_start, i) == i

\* faulty variant: the abort rewinds to the first cue
AbortCursor_Zero(attempt_start, i) == 0

\* line 119: the cursor after an aborted attempt
AbortCursor(attempt_start, i) == attempt_start

paragraph == paragraphs[para_i]
block == srt_blocks[srt_i + 1]
new_accumulated == Accumulate(accumulated_text, block.text)
new_start_time == IF start_time = <<>> THEN <<block.start>> ELSE start_time
branch == Outcome(normalize_text(new_accumulated), normalize_text(paragraph))

\* lines 88-95: the for loop takes the next paragraph
ForNext ==
    /\ pc = "for"
    /\ para_i < Len(paragraphs)
    /\ para_i' = para_i + 1
    /\ accumulated_text' = <<>>
    /\ start_time' = <<>>
    /\ end_time' = <<>>
    /\ start_srt_i' = srt_i
    /\ pc' = "while"
    /\ UNCHANGED <<srt_blocks, paragraphs, merged, current_index, srt_i,
                   attempts, ranges>>
    /\ UNCHANGED <<fileVars, normVars, folderVars>>

\* lines 97-115
IterMatch ==
    /\ pc = "while"
    /\ srt_i < n_srt
    /\ branch = "match"
    /\ start_time' = new_start_time
    /\ end_time' = <<block.end>>
    /\ accumulated_text' = new_accumulated
    /\ merged' = Append(merged, [index |-> BlockIndex(current_index, block.index),
                                 start |-> new_start_time[1],
                                 end |-> block.end,
                                 text |-> paragraph])
    /\ current_index' = current_index + 1
    /\ srt_i' = MatchCursor(srt_i)
    /\ pc' = "for"
    /\ attempts' = Append(attempts, [from |-> start_srt_i, to |-> srt_i',
                                     examined |-> srt_i - start_srt_i + 1,
                                     outcome |-> "match"])
    /\ ranges' = Append(ranges, [first |-> start_srt_i, last |-> srt_i,
                                 para |-> para_i])
    /\ UNCHANGED <<srt_blocks, paragraphs, para_i, start_srt_i>>
    /\ UNCHANGED <<fileVars, normVars, folderVars>>

\* lines 97-110, 116-117
IterPrefix ==
    /\ pc = "while"
    /\ srt_i < n_srt
    /\ branch = "prefix"
    /\ start_time' = new_start_time
    /\ end_time' = <<block.end>>
    /\ accumulated_text' = new_accumulated
    /\ srt_i' = srt_i + 1
    /\ UNCHANGED <<srt_blocks, paragraphs, merged, current_index, para_i,
                   start_srt_i, pc, attempts, ranges>>
    /\ UNCHANGED <<fileVars, normVars, folderVars>>

\* lines 97-110, 118-120
IterAbort ==
    /\ pc = "while"
    /\ srt_i < n_srt
    /\ branch = "abort"
    /\ start_time' = new_start_time
    /\ end_time' = <<block.end>>
    /\ accumulated_text' = new_accumulated
    /\ srt_i' = AbortCursor(start_srt_i, srt_i)
    /\ pc' = "for"
    /\ attempts' = Append(attempts, [from |-> start_srt_i, to |-> srt_i',
                                     examined |-> srt_i - start_srt_i + 1,
                                     outcome |-> "abort"])
    /\ UNCHANGED <<srt_blocks, paragraphs, merged, current_index, para_i,
                   start_srt_i, ranges>>
    /\ UNCHANGED <<fileVars, normVars, folderVars>>

\* faulty variant: running out of cues rewinds the cursor like an abort
WhileExit_Reset ==
    /\ pc = "while"
    /\ srt_i >= n_srt
    /\ pc' = "for"
    /\ srt_i' = start_srt_i
    /\ attempts' = Append(attempts, [from |-> start_srt_i, to |-> srt_i',
                                     examined |-> srt_i - start_srt_i,
                                     outcome |-> "exhausted"])
    /\ UNCHANGED <<srt_blocks, paragraphs, merged, current_index,
                   para_i, accumulated_text, start_time, end_time,
                   start_srt_i, ranges>>
    /\ UNCHANGED <<fileVars, normVars, folderVars>>

\* line 97: the while condition fails, the attempt ends with no decision
WhileExit ==
    /\ pc = "while"
    /\ srt_i >= n_srt
    /\ pc' = "for"
    /\ attempts' = Append(attempts, [from |-> start_srt_i, to |-> srt_i,
                                     examined |-> srt_i - start_srt_i,
                                     outcome |-> "exhausted"])
    /\ UNCHANGED <<srt_blocks, paragraphs, merged, current_index, srt_i,
                   para_i, accumulated_text, start_time, end_time,
                   start_srt_i, ranges>>
    /\ UNCHANGED <<fileVars, normVars, folderVars>>

\* line 122
Return ==
    /\ pc = "for"
    /\ para_i = Len(paragraphs)
    /\ pc' = "returned"
    /\ UNCHANGED <<srt_blocks, paragraphs, merged, current_index, srt_i,
                   para_i, accumulated_text, start_time, end_time,
                   start_srt_i, attempts, ranges>>
    /\ UNCHANGED <<fileVars, normVars, folderVars>>

\* lines 129-133: the returned blocks are written to the cue file
WriteSrt ==
    /\ pc = "returned"
    /\ content' = write_srt(merged)
    /\ pc' = "written"
    /\ UNCHANGED <<alignVars, parsed, normVars, folderVars>>

\* lines 39-66: the cue file is read and decoded
ParseSrt ==
    /\ pc = "written"
    /\ parsed' = parse_srt(content)
    /\ pc' = "parsed"
    /\ UNCHANGED <<alignVars, content, normVars, folderVars>>

Next ==
    \/ ForNext \/ IterMatch \/ IterPrefix \/ IterAbort \/ WhileExit \/ Return
    \/ WriteSrt \/ ParseSrt

\* one alignment run, its result encoded and decoded again
Spec == Init /\ [][Next]_vars

(***************************************************************************)
(* merge_srt_by_paragraph as a function of its arguments, for the callers  *)
(* that use only its result: the same branches, run to completion.         *)
(***************************************************************************)
\* lines 97-120: the while loop of one attempt, from cue i on
RECURSIVE WhileLoop(_, _, _, _, _, _)
WhileLoop(blocks, paragraph_norm, attempt_start, i, acc, start) ==
    IF i >= Len(blocks) THEN [outcome |-> "exhausted", srt_i |-> i]
    ELSE LET b == blocks[i + 1]
             acc2 == Accumulate(acc, b.text)
             start2 == IF start = <<>> THEN <<b.start>> ELSE start
             o == Outcome(normalize_text(acc2), paragraph_norm)
         IN CASE o = "match" ->
                   [outcome |-> "match", srt_i |-> MatchCursor(i),
                    start |-> start2[1], end |-> b.end, index |-> b.index]
              [] o = "prefix" ->
                   WhileLoop(blocks, paragraph_norm, attempt_start, i + 1, acc2, start2)
              [] OTHER ->
                   [outcome |-> "abort", srt_i |-> AbortCursor(attempt_start, i)]

\* lines 88-120: the for loop, from paragraph k on
RECURSIVE ForLoop(_, _, _, _, _)
ForLoop(blocks, paras, k, i, out) ==
    IF k > Len(paras) THEN out
    ELSE LET r == WhileLoop(blocks, normalize_text(paras[k]), i, i, <<>>, <<>>) IN
         ForLoop(blocks, paras, k + 1, r.srt_i,
                 IF r.outcome = "match"
                 THEN Append(out, [index |-> BlockIndex(Len(out) + 1, r.index),
                                   start |-> r.start, end |-> r.end,
                                   text |-> paras[k]])
                 ELSE out)

\* lines 75-122
merge_srt_by_paragraph(blocks, paras) == ForLoop(blocks, paras, 1, 0, <<>>)

(***************************************************************************)
(* The decoder applied to a cue file.                                      *)
(***************************************************************************)
LinePool ==
    { <<"1">>,
      <<"a">>,
      <<>>,
      <<"0", "0", ":", "0", "0", ":", "0", "1", ",", "0", "0", "0",
        " ", "-", "-", ">", " ", "0", "0", ":", "0", "0", ":",
        "0", "2", ",", "5", "0", "0">>,
      <<"0", "0", ":", "0", "0", ":", "0", "1", ",", "0", "0", "0",
        " ", "a", "b", " ", "0", "0", ":", "0", "0", ":", "0",
        "2", ",", "5", "0", "0">>,
      <<"1", ":", "2", " ", "-", "-", ">", " ", "3">>,
      <<"a", " ", "b">> }

\* "\n".join(lines)
RECURSIVE JoinLines(_)
JoinLines(ls) ==
    IF ls = <<>> THEN <<>>
    ELSE IF Len(ls) = 1 THEN ls[1]
    ELSE ls[1] \o <<"\n">> \o JoinLines(Tail(ls))

\* line 40-41: the file holds any text
InitParse ==
    /\ content \in { JoinLines(ls) : ls \in SeqsUpTo(LinePool, MaxLines) }
    /\ parsed = NotParsed
    /\ pc = "written"
    /\ AlignIdle
    /\ NormIdle
    /\ FolderIdle

NextParse == ParseSrt

SpecParse == InitParse /\ [][NextParse]_vars

(***************************************************************************)
(* normalize_text applied to a string, and again to its result.            *)
(***************************************************************************)
TextAlphabet == {"a", "A", " ", "\n", "U201C", "U2019", "U2014"}

InitNorm ==
    /\ txt \in SeqsUpTo(TextAlphabet, MaxTextLen)
    /\ once = <<>>
    /\ twice = <<>>
    /\ pc = "text"
    /\ AlignIdle
    /\ FileIdle
    /\ FolderIdle

NormalizeOnce ==
    /\ pc = "text"
    /\ once' = normalize_text(txt)
    /\ pc' = "once"
    /\ UNCHANGED <<alignVars, fileVars, txt, twice, folderVars>>

NormalizeTwice ==
    /\ pc = "once"
    /\ twice' = normalize_text(once)
    /\ pc' = "twice"
    /\ UNCHANGED <<alignVars, fileVars, txt, once, folderVars>>

NextNorm == NormalizeOnce \/ NormalizeTwice

SpecNorm == InitNorm /\ [][NextNorm]_vars

(***************************************************************************)
(* process_folder.  Every base name has a .srt file.                       *)
(***************************************************************************)
\* a cue file of two cues, and one whose time line holds no end time
SrtPool ==
    { <<"1", "\n", "0", "0", ":", "0", "0", ":", "0", "0", ",", "0",
        "0", "0", " ", "-", "-", ">", " ", "0", "0", ":", "0",
        "0", ":", "0", "1", ",", "5", "0", "0", "\n", "a", "\n",
        "\n", "2", "\n", "0", "0", ":", "0", "0", ":", "0", "1",
        ",", "5", "0", "0", " ", "-", "-", ">", " ", "0", "0",
        ":", "0", "0", ":", "0", "3", ",", "0", "0", "0", "\n",
        "b", "\n">>,
      <<"1", "\n", "0", "0", ":", "0", "0", ":", "0", "0", ",", "0",
        "0", "0", "\n", "a", " ", "b", "\n">> }

NoDocx == [present |-> FALSE, paragraphs |-> <<>>]
Docx(paras) == [present |-> TRUE, paragraphs |-> paras]

DocxPool == { NoDocx, Docx(<<<<"a", " ", "b">>>>) }

\* lines 140-142
InitFolder ==
    /\ folder \in [1..FileCount -> [srt : SrtPool, docx : DocxPool]]
    /\ remaining = 1..FileCount
    /\ overwritten = {}
    /\ raised = FALSE
    /\ pc = "folder"
    /\ AlignIdle
    /\ FileIdle
    /\ NormIdle

\* lines 144-147: the .srt file has no .docx of the same base name
VisitUnpaired(f) ==
    /\ pc = "folder"
    /\ f \in remaining
    /\ ~folder[f].docx.present
    /\ remaining' = remaining \ {f}
    /\ UNCHANGED <<alignVars, fileVars, normVars, folder, overwritten, raised, pc>>

\* lines 144-152: parse_srt raises; nothing in process_folder or main
\* catches the exception, so it leaves the call
VisitRaise(f) ==
    /\ pc = "folder"
    /\ f \in remaining
    /\ folder[f].docx.present
    /\ ~parse_srt(folder[f].srt).ok
    /\ raised' = TRUE
    /\ pc' = "propagated"
    /\ UNCHANGED <<alignVars, fileVars, normVars, folder, remaining, overwritten>>

\* lines 144-160: the pair is decoded, aligned and overwritten
VisitOverwrite(f) ==
    /\ pc = "folder"
    /\ f \in remaining
    /\ folder[f].docx.present
    /\ parse_srt(folder[f].srt).ok
    /\ LET srt_blocks_f == parse_srt(folder[f].srt).blocks
           merged_blocks == merge_srt_by_paragraph(srt_blocks_f,
                                                   folder[f].docx.paragraphs)
       IN folder' = [folder EXCEPT ![f].srt = write_srt(merged_blocks)]
    /\ overwritten' = overwritten \cup {f}
    /\ remaining' = remaining \ {f}
    /\ UNCHANGED <<alignVars, fileVars, normVars, raised, pc>>

\* line 144: the for loop has visited every .srt file
FolderReturn ==
    /\ pc = "folder"
    /\ remaining = {}
    /\ pc' = "folder_returned"
    /\ UNCHANGED <<alignVars, fileVars, normVars, folderVars>>

NextFolder ==
    \/ \E f \in 1..FileCount : VisitUnpaired(f)
    \/ \E f \in 1..FileCount : VisitRaise(f)
    \/ \E f \in 1..FileCount : VisitOverwrite(f)
    \/ FolderReturn

SpecFolder == InitFolder /\ [][NextFolder]_vars

(***************************************************************************)
(* One merge_srt_by_paragraph call on longer paragraph lists, run to its   *)
(* return.  The call is a sequential loop that nothing suspends, so a step *)
(* that can be taken is taken: weak fairness of its steps.                 *)
(***************************************************************************)
WorkParagraphPool == { <<"a", " ", "b">>, <<"b">> }

\* lines 83-86
InitWork ==
    /\ srt_blocks \in SeqsUpTo(CuePool, MaxCues)
    /\ paragraphs \in SeqsUpTo(WorkParagraphPool, MaxWorkParas)
    /\ merged = <<>>
    /\ current_index = 1
    /\ srt_i = 0
    /\ para_i = 0
    /\ accumulated_text = <<>>
    /\ start_time = <<>>
    /\ end_time = <<>>
    /\ start_srt_i = 0
    /\ pc = "for"
    /\ attempts = <<>>
    /\ ranges = <<>>
    /\ FileIdle
    /\ NormIdle
    /\ FolderIdle

NextWork ==
    ForNext \/ IterMatch \/ IterPrefix \/ IterAbort \/ WhileExit \/ Return

SpecWork == InitWork /\ [][NextWork]_vars /\ WF_vars(NextWork)



(***************************************************************************)
(* Properties of the aligner.                                              *)
(***************************************************************************)
\* " ".join of the texts of cues first..last (0-based, inclusive)
RECURSIVE SpaceJoin(_)
SpaceJoin(texts) ==
    IF texts = <<>> THEN <<>>
    ELSE IF Len(texts) = 1 THEN texts[1]
    ELSE texts[1] \o <<" ">> \o SpaceJoin(Tail(texts))

CueTexts(first, last) ==
    [i \in 1..(last - first + 1) |-> srt_blocks[first + i].text]

\* C1: every emitted block carries the original paragraph as its text, the
\* start of the first cue it consumed, the end of the last cue it consumed,
\* and the normalized space-joined text of exactly those cues equals the
\* normalized paragraph.
C1_BlockInvariant ==
    /\ Len(ranges) = Len(merged)
    /\ \A k \in 1..Len(merged) :
         LET r == ranges[k] IN
         /\ 0 <= r.first /\ r.first <= r.last /\ r.last < n_srt
         /\ merged[k].text = paragraphs[r.para]
         /\ merged[k].start = srt_blocks[r.first + 1].start
         /\ merged[k].end = srt_blocks[r.last + 1].end
         /\ normalize_text(SpaceJoin(CueTexts(r.first, r.last)))
              = normalize_text(paragraphs[r.para])

\* a block built from two or more cues whose paragraph is not in normal form
C1_Witness ==
    \E k \in 1..Len(merged) :
        /\ ranges[k].last > ranges[k].first
        /\ merged[k].text # normalize_text(merged[k].text)
        /\ merged[k].start # srt_blocks[ranges[k].last + 1].start

\* C2 as claimed: every attempt that emits no block leaves the cursor where
\* it was when the attempt began.
C2_AsClaimed ==
    \A k \in 1..Len(attempts) :
        attempts[k].outcome # "match" => attempts[k].to = attempts[k].from

\* C2 amended: an aborted attempt leaves the cursor where it was when the
\* attempt began; an attempt that runs out of cues leaves the cursor at
\* len(cues), whatever it was when the attempt began; only a match moves
\* the cursor to the cue after the last one consumed.
C2_Amended ==
    \A k \in 1..Len(attempts) :
        LET a == attempts[k] IN
        /\ a.outcome = "abort" => a.to = a.from
        /\ a.outcome = "exhausted" => a.to = n_srt
        /\ a.outcome = "match" => a.to = a.from + a.examined

\* an attempt aborted after the cursor had moved, and one that ran out of
\* cues after consuming some
C2_Witness ==
    /\ \E k \in 1..Len(attempts) :
          attempts[k].outcome = "abort" /\ attempts[k].examined >= 2
    /\ \E k \in 1..Len(attempts) :
          attempts[k].outcome = "exhausted" /\ attempts[k].examined >= 1

\* the paragraph is the normalized space-joined text of a run of cues that
\* begins at cue `from`
Reconstructible(p, from) ==
    \E last \in from..(n_srt - 1) :
        normalize_text(SpaceJoin(CueTexts(from, last))) = normalize_text(p)

\* C3: an aborted attempt emits no block and resets the cursor; the next
\* paragraph's attempt begins at the same cue, and if that paragraph is
\* reconstructible from a run of cues beginning there, it is matched.
C3_AbortKeepsCues ==
    \A k \in 1..Len(attempts) :
        attempts[k].outcome = "abort" =>
            /\ attempts[k].to = attempts[k].from
            /\ \A j \in 1..Len(ranges) : ranges[j].para # k
            /\ k < Len(attempts) =>
                 /\ attempts[k + 1].from = attempts[k].from
                 /\ Reconstructible(paragraphs[k + 1], attempts[k].from)
                      => /\ attempts[k + 1].outcome = "match"
                         /\ \E j \in 1..Len(ranges) :
                              /\ ranges[j].para = k + 1
                              /\ ranges[j].first = attempts[k].from

\* an attempt aborted after examining two cues, followed by a paragraph
\* matched from the same two cues
C3_Witness ==
    \E k \in 1..(Len(attempts) - 1) :
        /\ attempts[k].outcome = "abort"
        /\ attempts[k].examined >= 2
        /\ attempts[k + 1].outcome = "match"
        /\ attempts[k + 1].examined >= 2
        /\ attempts[k + 1].from = attempts[k].from

\* history part of C4: an attempt that ran out of cues emitted no block, and
\* every later attempt began at len(cues), examined no cue and emitted no
\* block
C4_History ==
    \A k \in 1..Len(attempts) :
        attempts[k].outcome = "exhausted" =>
            /\ \A j \in 1..Len(ranges) : ranges[j].para < k
            /\ \A j \in (k + 1)..Len(attempts) :
                 /\ attempts[j].from = n_srt
                 /\ attempts[j].examined = 0
                 /\ attempts[j].outcome = "exhausted"

\* C4: when the cues run out during an attempt no block is committed for
\* that paragraph, every later attempt starts with no cue available and
\* emits nothing, and once the cursor equals len(cues) the result never
\* grows (and the cursor never moves) again.
C4_ExhaustedForever ==
    /\ []C4_History
    /\ [][srt_i = n_srt => (merged' = merged /\ srt_i' = srt_i)]_vars

\* cues ran out in the middle of an accumulation, with paragraphs left
C4_Witness ==
    /\ Len(attempts) >= 2
    /\ attempts[1].outcome = "exhausted"
    /\ attempts[1].examined >= 1
    /\ attempts[2].outcome = "exhausted"

\* C5: the cursor at the start of successive attempts never decreases, and
\* the cue ranges of the committed blocks are pairwise disjoint (so no cue
\* is consumed by two blocks).
C5_NoCueTwice ==
    /\ \A k \in 1..(Len(attempts) - 1) : attempts[k].from <= attempts[k + 1].from
    /\ \A i, j \in 1..Len(ranges) :
         i < j => /\ ranges[i].first <= ranges[i].last
                  /\ ranges[i].last < ranges[j].first
    /\ \A c \in 0..(n_srt - 1) :
         Cardinality({k \in 1..Len(ranges) :
                        ranges[k].first <= c /\ c <= ranges[k].last}) <= 1

\* two committed blocks, the first built from two cues
C5_Witness ==
    /\ Len(ranges) >= 2
    /\ ranges[1].last > ranges[1].first
    /\ attempts[2].from > attempts[1].from

\* C9: the blocks returned are numbered 1, 2, ..., k in output order,
\* whatever the index fields of the cues, and k <= len(paragraphs).
C9_SequentialIndices ==
    /\ Len(merged) <= Len(paragraphs)
    /\ Len(merged) <= para_i
    /\ \A k \in 1..Len(merged) : merged[k].index = k

\* two blocks returned, built from cues whose own indices are not 1 and 2
C9_Witness ==
    /\ pc = "returned"
    /\ Len(merged) >= 2
    /\ \A k \in 1..Len(merged) : srt_blocks[ranges[k].last + 1].index # k

(***************************************************************************)
(* Properties of the encoder and the decoder.                              *)
(***************************************************************************)
Within1ms(a, b) == a - b <= 1 /\ b - a <= 1

\* C7 as claimed: decoding the encoding of the aligned blocks yields as many
\* blocks, each with exactly the text of the aligned block and with start
\* and end within 1 ms of the aligned block's.
C7_AsClaimed ==
    pc = "parsed" =>
        /\ parsed.ok
        /\ Len(parsed.blocks) = Len(merged)
        /\ \A k \in 1..Len(merged) :
             /\ parsed.blocks[k].text = merged[k].text
             /\ Within1ms(parsed.blocks[k].start, merged[k].start)
             /\ Within1ms(parsed.blocks[k].end, merged[k].end)

HasLineBreak(s) == \E i \in 1..Len(s) : s[i] = "\n"

\* C7 amended: when no aligned block's text holds a line break, decoding the
\* encoding of the aligned blocks yields as many blocks, each with the text
\* of the aligned block stripped of leading and trailing whitespace and
\* with start and end within 1 ms of the aligned block's.
C7_Amended ==
    (pc = "parsed" /\ \A k \in 1..Len(merged) : ~HasLineBreak(merged[k].text)) =>
        /\ parsed.ok
        /\ Len(parsed.blocks) = Len(merged)
        /\ \A k \in 1..Len(merged) :
             /\ parsed.blocks[k].text = Strip(merged[k].text)
             /\ Within1ms(parsed.blocks[k].start, merged[k].start)
             /\ Within1ms(parsed.blocks[k].end, merged[k].end)

\* two blocks written and read back, one of them with text that the encoder
\* strips, one of them ending after more than an hour
C7_Witness ==
    /\ pc = "parsed"
    /\ Len(merged) >= 2
    /\ \A k \in 1..Len(merged) : ~HasLineBreak(merged[k].text)
    /\ \E k \in 1..Len(merged) : merged[k].text # Strip(merged[k].text)
    /\ \E k \in 1..Len(merged) : merged[k].end >= 3600000

\* the lines of a blank-line-separated block of the source
BlockLines(raw_block) == SplitLines(Strip(raw_block))

\* the block's first line is an integer
IsNumbered(raw_block) ==
    BlockLines(raw_block) # <<>> /\ IsDigit(Strip(BlockLines(raw_block)[1]))

\* 'HH:MM:SS,mmm'
IsStamp(s) ==
    /\ Len(s) = 12
    /\ \A i \in {1, 2, 4, 5, 7, 8, 10, 11, 12} : s[i] \in Digits
    /\ s[3] = ":" /\ s[6] = ":" /\ s[9] = ","

\* 'HH:MM:SS,mmm --> HH:MM:SS,mmm'
HasTimeLineForm(line) ==
    LET l == Strip(line) IN
    /\ Len(l) = 29
    /\ IsStamp(SubSeq(l, 1, 12))
    /\ SubSeq(l, 13, 17) = <<" ", "-", "-", ">", " ">>
    /\ IsStamp(SubSeq(l, 18, 29))

\* the block has an integer first line and no second line of the form
IsMalformed(raw_block) ==
    /\ IsNumbered(raw_block)
    /\ \/ Len(BlockLines(raw_block)) < 2
       \/ ~HasTimeLineForm(BlockLines(raw_block)[2])

\* C8 as claimed: a block whose first line is not an integer is skipped; a
\* block with an integer first line whose second line is not of the form
\* 'HH:MM:SS,mmm --> HH:MM:SS,mmm' fails the whole decode; every other
\* block yields exactly one cue, in source order.
C8_AsClaimed ==
    pc = "parsed" =>
        LET raw == SplitBlankLines(Strip(content))
            numbered == SelectSeq(raw, IsNumbered)
        IN IF \E k \in 1..Len(raw) : IsMalformed(raw[k])
           THEN ~parsed.ok
           ELSE /\ parsed.ok
                /\ Len(parsed.blocks) = Len(numbered)
                /\ \A k \in 1..Len(numbered) :
                     parsed.blocks[k].index
                        = DigitsValue(Strip(BlockLines(numbered[k])[1]))

\* C6 as claimed: when process_folder ends, by returning or by an exception,
\* every pair whose cue file decodes has been aligned and overwritten.
C6_AsClaimed ==
    pc \in {"folder_returned", "propagated"} =>
        \A f \in remaining :
            ~(folder[f].docx.present /\ parse_srt(folder[f].srt).ok)

LettersOf(s) == SelectSeq(s, LAMBDA c : c \in Letters)

\* C10: normalize_text yields a string for every string, normalizing its
\* result again changes nothing, and the letters of the result are the
\* letters of the argument, in order and in the same case.
C10_TotalIdempotent ==
    /\ pc \in {"once", "twice"} =>
          /\ DOMAIN once = 1..Len(once)
          /\ \A i \in 1..Len(once) : once[i] = ReplaceChar(once[i])
          /\ LettersOf(once) = LettersOf(txt)
    /\ pc = "twice" => twice = once

\* a string with an upper-case letter, a typographic dash and a newline
\* has been normalized twice
C10_Witness ==
    /\ pc = "twice"
    /\ \E i, j, k \in 1..Len(txt) :
          txt[i] = "A" /\ txt[j] = "U2014" /\ txt[k] = "\n"
    /\ once # txt

(***************************************************************************)
(* Work and coverage of the aligner.                                       *)
(***************************************************************************)
\* cues examined by the attempts of a list of ended attempts
RECURSIVE ExaminedIn(_)
ExaminedIn(as) ==
    IF as = <<>> THEN 0 ELSE Head(as).examined + ExaminedIn(Tail(as))

IsNotAborted(a) == a.outcome # "abort"

\* cues examined by the attempt in progress
ExaminedNow == IF pc = "while" THEN srt_i - start_srt_i ELSE 0

\* iterations of the while loop so far
Examinations == ExaminedIn(attempts) + ExaminedNow

\* C11 as claimed: the call returns, and the number of cue examinations is
\* at most a constant multiple of len(cues) whatever the number of
\* paragraphs; the multiple tried is 2.
C11_AsClaimed == Examinations <= 2 * n_srt

\* steps the call can still take, at most: it is 0 only once the call has
\* returned
StepsLeft ==
    (Len(paragraphs) - para_i) * (n_srt + 2)
      + (IF pc = "while" THEN n_srt - srt_i + 1 ELSE 0)
      + (IF pc = "returned" THEN 0 ELSE 1)

\* the guard of one of the steps of the call holds: ForNext or Return at
\* "for"; WhileExit, IterMatch, IterPrefix or IterAbort at "while"
CanStep ==
    \/ pc = "for" /\ (para_i < Len(paragraphs) \/ para_i = Len(paragraphs))
    \/ pc = "while" /\ srt_i >= n_srt
    \/ pc = "while" /\ srt_i < n_srt /\ branch \in {"match", "prefix", "abort"}

\* C11 amended: the call always returns (until it has returned a step is
\* possible, and every step lowers StepsLeft, which is never negative); the
\* cue examinations outside aborted attempts number at most len(cues),
\* every attempt examines at most the cues from its starting cursor on, and
\* so the examinations number at most len(cues) * len(paragraphs).
C11_Amended ==
    /\ [](/\ pc # "returned" => CanStep
          /\ StepsLeft >= 0
          /\ ExaminedIn(SelectSeq(attempts, IsNotAborted)) + ExaminedNow
               <= n_srt
          /\ \A k \in 1..Len(attempts) :
               attempts[k].examined <= n_srt - attempts[k].from
          /\ Examinations <= n_srt * para_i
          /\ para_i <= Len(paragraphs))
    /\ [][StepsLeft' < StepsLeft]_vars

\* the call has returned after three aborted attempts examined the same
\* two cues: more examinations than twice the number of cues
C11_Witness ==
    /\ pc = "returned"
    /\ Examinations > 2 * n_srt
    /\ \E k \in 1..Len(attempts) :
          attempts[k].outcome = "abort" /\ attempts[k].examined >= 2

\* C12: the cue ranges of the committed blocks are contiguous from cue 0:
\* the first block begins at cue 0 and every later block begins at the cue
\* after the last cue of the block before it; no attempt begins beyond the
\* cues consumed so far unless the cues have run out, so while no paragraph
\* matches at the cursor no later cue enters a block.
C12_GapFree ==
    /\ Len(ranges) >= 1 => ranges[1].first = 0
    /\ \A k \in 1..(Len(ranges) - 1) : ranges[k + 1].first = ranges[k].last + 1
    /\ LET consumed == IF ranges = <<>> THEN 0 ELSE ranges[Len(ranges)].last + 1
       IN /\ \A k \in 1..Len(attempts) :
                \/ attempts[k].from <= consumed
                \/ attempts[k].from = n_srt
          /\ pc = "for" => srt_i = consumed \/ srt_i = n_srt
          /\ pc = "while" => start_srt_i = consumed \/ start_srt_i = n_srt

\* two committed blocks of which the second begins after the first cue,
\* with an attempt aborted between them after examining a cue
C12_Witness ==
    /\ Len(ranges) >= 2
    /\ ranges[2].first > 0
    /\ \E k \in 2..(Len(attempts) - 1) :
          /\ attempts[k - 1].outcome = "match"
          /\ attempts[k].outcome = "abort"
          /\ attempts[k + 1].outcome = "match"

=============================================================================
